---------------------------- MODULE Spec2Model ----------------------------
(***************************************************************************)
(* Model of the libdns provider for the ODS line protocol (provider.go).   *)
(*                                                                         *)
(* A Go string is a sequence of bytes, and so is a text here: a sequence   *)
(* of numbers in 0..255, one per byte.  A character outside ASCII is the   *)
(* two, three or four bytes UTF-8 gives it (U+00E9 is <<195, 169>>), so    *)
(* that the byte-level operations of the code (HasPrefix, line[4:], the    *)
(* 4096-byte read buffer, Fields, Split, Contains, Atoi, Sprintf) are      *)
(* computed as the code computes them.  Bytes("...") writes a text of      *)
(* printable ASCII characters.                                             *)
(*                                                                         *)
(* A number that may exceed the model checker's integers (an int, an       *)
(* int64, a time.Duration in nanoseconds, the mantissa of a float64) is    *)
(* the sequence of its decimal digits, and the arithmetic of the code,     *)
(* the wrap of int64 and the rounding of float64 included, is done on the  *)
(* digits.  Int64(neg, mag) is a signed number, Duration(sec, nsec) the    *)
(* Duration of sec seconds and nsec nanoseconds.                           *)
(***************************************************************************)
EXTENDS Integers, Sequences, FiniteSets, TLC

\* ------------------------------------------------------------------ bounds
\* public calls made in one behaviour
MaxCalls == 2
\* lines of a LISTRR response
MaxLines == 2
\* records of one AppendRecords / SetRecords / DeleteRecords batch
MaxRecs == 2

\* ------------------------------------------------------- program constants
\* size of the read buffer of sendCommand, in bytes
BufferSize == 4096
\* number of bytes line[4:] strips
PrefixLen == 4
\* the byte of "\n"
LF == 10

\* -------------------------------------------------------------- text
\* the printable characters of ASCII from U+0020 to U+005F, in the order of
\* their bytes 32 to 95
Printable ==
    <<" ", "!", "\"", "#", "$", "%", "&", "'", "(", ")", "*", "+",
       ",", "-", ".", "/", "0", "1", "2", "3", "4", "5", "6", "7",
       "8", "9", ":", ";", "<", "=", ">", "?", "@", "A", "B", "C",
       "D", "E", "F", "G", "H", "I", "J", "K", "L", "M", "N", "O",
       "P", "Q", "R", "S", "T", "U", "V", "W", "X", "Y", "Z", "[",
       "\\", "]", "^", "_">>

\* and those from U+0061 to U+007E, bytes 97 to 126 (the grave accent in
\* between, byte 96, cannot stand in a string of a module)
Lower ==
    <<"a", "b", "c", "d", "e", "f", "g", "h", "i", "j", "k", "l",
       "m", "n", "o", "p", "q", "r", "s", "t", "u", "v", "w", "x",
       "y", "z", "{", "|", "}", "~">>

\* the byte of a printable ASCII character
Byte(c) ==
    IF \E i \in 1..Len(Printable) : Printable[i] = c
    THEN 31 + CHOOSE i \in 1..Len(Printable) : Printable[i] = c
    ELSE 96 + CHOOSE i \in 1..Len(Lower) : Lower[i] = c

\* []byte of a text of printable ASCII characters
Bytes(chars) == [i \in 1..Len(chars) |-> Byte(chars[i])]

\* the white space of ASCII: tab, line feed, vertical tab, form feed,
\* carriage return, space
AsciiSpace == {9, 10, 11, 12, 13, 32}

\* the UTF-8 of the white space of unicode.IsSpace outside ASCII: U+0085,
\* U+00A0, U+1680, U+2000 to U+200A, U+2028, U+2029, U+202F, U+205F, U+3000
SpaceCodes ==
    { <<194, 133>>, <<194, 160>>, <<225, 154, 128>> }
    \cup { <<226, 128, b>> : b \in 128..138 }
    \cup { <<226, 128, 168>>, <<226, 128, 169>>, <<226, 128, 175>>,
           <<226, 129, 159>>, <<227, 128, 128>> }

\* the bytes of the white-space character s starts with, 0 when it starts
\* with none; a byte that starts no white space, valid UTF-8 or not, is
\* part of a field
SpaceLen(s) ==
    IF s = <<>> THEN 0
    ELSE IF Head(s) \in AsciiSpace THEN 1
    ELSE IF Len(s) >= 2 /\ SubSeq(s, 1, 2) \in SpaceCodes THEN 2
    ELSE IF Len(s) >= 3 /\ SubSeq(s, 1, 3) \in SpaceCodes THEN 3
    ELSE 0

NL == <<LF>>
SP == Bytes(<<" ">>)
COLON == Bytes(<<":">>)
S151 == Bytes(<<"1", "5", "1">>)
S225 == Bytes(<<"2", "2", "5">>)
SLOGIN == Bytes(<<"L", "O", "G", "I", "N">>)
SLISTRR == Bytes(<<"L", "I", "S", "T", "R", "R">>)
SADDRR == Bytes(<<"A", "D", "D", "R", "R">>)
SDELRR == Bytes(<<"D", "E", "L", "R", "R">>)
SMX == Bytes(<<"M", "X">>)
SSRV == Bytes(<<"S", "R", "V">>)
SBADVERB == Bytes(<<"%", "!", "d", "(", "f", "l", "o", "a", "t", "6", "4", "=">>)

\* s[from:] of Go: s without its first from bytes, from <= len(s)
SliceFrom(s, from) == SubSeq(s, from + 1, Len(s))

\* strings.HasPrefix
HasPrefix(s, prefix) ==
    /\ Len(s) >= Len(prefix)
    /\ SubSeq(s, 1, Len(prefix)) = prefix

\* strings.Contains
Contains(s, substr) ==
    \E i \in 0..(Len(s) - Len(substr)) : SubSeq(s, i + 1, i + Len(substr)) = substr

\* strings.Split(s, sep) for a one-byte separator: never empty
RECURSIVE SplitAcc(_, _, _, _)
SplitAcc(s, sep, cur, acc) ==
    IF s = <<>> THEN Append(acc, cur)
    ELSE IF Head(s) = sep THEN SplitAcc(Tail(s), sep, <<>>, Append(acc, cur))
    ELSE SplitAcc(Tail(s), sep, Append(cur, Head(s)), acc)

Split(s, sep) == SplitAcc(s, sep, <<>>, <<>>)

\* strings.Fields: the maximal runs of bytes between white space
RECURSIVE FieldsAcc(_, _, _)
FieldsAcc(s, cur, acc) ==
    IF s = <<>> THEN (IF cur = <<>> THEN acc ELSE Append(acc, cur))
    ELSE IF SpaceLen(s) > 0
         THEN FieldsAcc(SubSeq(s, SpaceLen(s) + 1, Len(s)), <<>>,
                        IF cur = <<>> THEN acc ELSE Append(acc, cur))
    ELSE FieldsAcc(Tail(s), Append(cur, Head(s)), acc)

Fields(s) == FieldsAcc(s, <<>>, <<>>)

IsDigit(c) == c \in Byte("0")..Byte("9")

DigitVal(c) == c - Byte("0")

\* ------------------------------------------------------------- numbers
\* An int of the code has 64 bits and a Duration is an int64 of nanoseconds,
\* more than the integers of the model checker hold.  A natural number is
\* the sequence of its decimal digits, the most significant first, without
\* leading zeros (zero is <<0>>), and the arithmetic is done on the digits.
Zero == <<0>>

One == <<1>>

\* the digits of a small natural number
RECURSIVE NatOf(_)
NatOf(n) == IF n < 10 THEN <<n>> ELSE Append(NatOf(n \div 10), n % 10)

Zeros(k) == [i \in 1..k |-> 0]

\* without leading zeros
Norm(s) ==
    IF \A i \in 1..Len(s) : s[i] = 0 THEN Zero
    ELSE SubSeq(s, CHOOSE i \in 1..Len(s) : s[i] # 0 /\ \A j \in 1..(i - 1) : s[j] = 0,
                Len(s))

\* without trailing zeros
StripZeros(s) ==
    IF \A i \in 1..Len(s) : s[i] = 0 THEN Zero
    ELSE SubSeq(s, 1, CHOOSE i \in 1..Len(s) :
                          s[i] # 0 /\ \A j \in (i + 1)..Len(s) : s[j] = 0)

\* a * 10^k
Shift(a, k) == Norm(a \o Zeros(k))

\* a div 10^k
DropLast(a, k) == IF Len(a) <= k THEN Zero ELSE SubSeq(a, 1, Len(a) - k)

\* a mod 10^k
LastOf(a, k) == IF Len(a) <= k THEN a ELSE Norm(SubSeq(a, Len(a) - k + 1, Len(a)))

\* a < b
Less(a, b) ==
    \/ Len(a) < Len(b)
    \/ /\ Len(a) = Len(b)
       /\ \E i \in 1..Len(a) : a[i] < b[i] /\ \A j \in 1..(i - 1) : a[j] = b[j]

\* a with zeros in front, to n digits
Pad(a, n) == Zeros(n - Len(a)) \o a

\* a + b: a place gets a carry when a place after it overflows and the
\* places in between are full
Plus(a, b) ==
    LET n == IF Len(a) < Len(b) THEN Len(b) ELSE Len(a)
        x == Pad(a, n)
        y == Pad(b, n)
        carry(i) == IF \E j \in (i + 1)..n :
                            /\ x[j] + y[j] >= 10
                            /\ \A k \in (i + 1)..(j - 1) : x[k] + y[k] = 9
                    THEN 1 ELSE 0
    IN Norm(<<carry(0)>> \o [i \in 1..n |-> (x[i] + y[i] + carry(i)) % 10])

\* a - b, for a >= b: a place lends when a place after it falls short and
\* the places in between are level
Minus(a, b) ==
    LET n == Len(a)
        y == Pad(b, n)
        borrow(i) == IF \E j \in (i + 1)..n :
                             /\ a[j] < y[j]
                             /\ \A k \in (i + 1)..(j - 1) : a[k] = y[k]
                     THEN 1 ELSE 0
    IN Norm(<<0>> \o [i \in 1..n |-> (10 + a[i] - y[i] - borrow(i)) % 10])

\* 2 * a
Double(a) ==
    Norm(<<IF a[1] >= 5 THEN 1 ELSE 0>>
         \o [i \in 1..Len(a) |->
                ((2 * a[i]) % 10) + (IF i < Len(a) /\ a[i + 1] >= 5 THEN 1 ELSE 0)])

\* a div 2
Half(a) ==
    Norm(<<0>> \o [i \in 1..Len(a) |->
                     (a[i] \div 2) + (IF i > 1 /\ a[i - 1] % 2 = 1 THEN 5 ELSE 0)])

IsOdd(a) == a[Len(a)] % 2 = 1

\* a * 2^k
RECURSIVE TimesPow2(_, _)
TimesPow2(a, k) ==
    IF k = 0 \/ a = Zero THEN a
    ELSE IF k = 1 THEN Double(a)
    ELSE TimesPow2(TimesPow2(a, k \div 2), k - (k \div 2))

\* a div 2^k
RECURSIVE DivPow2(_, _)
DivPow2(a, k) ==
    IF k = 0 \/ a = Zero THEN a
    ELSE IF k = 1 THEN Half(a)
    ELSE DivPow2(DivPow2(a, k \div 2), k - (k \div 2))

\* a mod 2^k
ModPow2(a, k) == Minus(a, TimesPow2(DivPow2(a, k), k))

\* time.Second is 10^NanoDigits: a Duration counts nanoseconds
NanoDigits == 9

\* the bits of time.Second: 2^29 < 10^9 < 2^30
NanoBits == 30

\* the bits of an int (on a 64-bit platform) and of an int64
IntSize == 64

\* the bits of the mantissa of a float64
MantBits == 53

\* the powers of two the arithmetic below compares with
Pow2 == [k \in 0..(IntSize + MantBits + NanoBits) |-> TimesPow2(One, k)]

TwoTo63 == Pow2[IntSize - 1]

TwoTo64 == Pow2[IntSize]

TwoTo52 == Pow2[MantBits - 1]

TwoTo53 == Pow2[MantBits]

\* an int64: its sign and the digits of its magnitude
Int64(neg, mag) == [neg |-> neg /\ mag # Zero, mag |-> mag]

\* the int64 of the 64 bits that are the number u < 2^64
FromBits(u) ==
    IF Less(u, TwoTo63) THEN Int64(FALSE, u) ELSE Int64(TRUE, Minus(TwoTo64, u))

\* the 64 bits of -u, for the 64 bits u
Negated(u) == IF u = Zero THEN Zero ELSE Minus(TwoTo64, u)

\* the int64 that a number, given by its sign and magnitude, wraps to (two's
\* complement: the number modulo 2^64, from -2^63 to 2^63 - 1)
Wrap(neg, mag) ==
    FromBits(IF neg THEN Negated(ModPow2(mag, IntSize)) ELSE ModPow2(mag, IntSize))

\* strconv.Atoi: an optional sign, then one or more decimal digits, of a
\* number from -2^63 to 2^63 - 1; outside that range the error is a range
\* error and the value the nearest end of the range
Atoi(s) ==
    LET signed == s # <<>> /\ Head(s) \in {Byte("+"), Byte("-")}
        neg == signed /\ Head(s) = Byte("-")
        body == IF signed THEN Tail(s) ELSE s
        syntax == body # <<>> /\ \A i \in 1..Len(body) : IsDigit(body[i])
        mag == IF syntax THEN Norm([i \in 1..Len(body) |-> DigitVal(body[i])]) ELSE Zero
        most == IF neg THEN TwoTo63 ELSE Minus(TwoTo63, One)
        range == ~Less(most, mag)
    IN [err |-> ~syntax \/ ~range,
        val |-> IF range THEN Int64(neg, mag) ELSE Int64(neg, most)]

\* the decimal digits of a small natural number, as text
RECURSIVE NatText(_)
NatText(n) ==
    IF n < 10 THEN <<Byte("0") + n>>
    ELSE Append(NatText(n \div 10), Byte("0") + (n % 10))

\* the digits of a natural number, as text
DigitsText(a) == [i \in 1..Len(a) |-> Byte("0") + a[i]]

\* %d of an int
Itoa(n) == (IF n.neg THEN Bytes(<<"-">>) ELSE <<>>) \o DigitsText(n.mag)

\* ------------------------------------------------------------ durations
\* the Duration of sec seconds and nsec nanoseconds, nsec < 10^9
Duration(sec, nsec) == Int64(FALSE, Plus(Shift(NatOf(sec), NanoDigits), NatOf(nsec)))

\* time.Duration(n) * time.Second, in int64
TimesSecond(n) == Wrap(n.neg, Shift(n.mag, NanoDigits))

\* a float64 that is not zero has the magnitude m * 2^(-p) with
\* 2^52 <= m < 2^53; zero has m = 0
FloatZero == [neg |-> FALSE, m |-> Zero, p |-> 0]

\* m or m + 1 as a mantissa: 2^53 is 2^52 with the next exponent
Mantissa(m, p, up) ==
    LET r == IF up THEN Plus(m, One) ELSE m
    IN IF r = TwoTo53 THEN [m |-> TwoTo52, p |-> p - 1] ELSE [m |-> r, p |-> p]

\* the rounding of Narrow, k being the number of bits it drops
NarrowBy(n, p, more, k) ==
    IF k = 0 THEN Mantissa(n, p, FALSE)
    ELSE LET m == DivPow2(n, k)
             rest == Minus(n, TimesPow2(m, k))
             half == Pow2[k - 1]
             up == Less(half, rest) \/ (rest = half /\ (more \/ IsOdd(m)))
         IN Mantissa(m, p - k, up)

\* the float64 nearest to a number from n * 2^(-p) to less than
\* (n + 1) * 2^(-p), for n >= 2^52: the k last bits of n are dropped, and
\* what is dropped rounds to the nearest mantissa, a tie to the even one.
\* more says that the number is more than n * 2^(-p).
Narrow(n, p, more) ==
    NarrowBy(n, p, more,
             CHOOSE k \in 0..(IntSize + NanoBits) :
                 ~Less(n, Pow2[MantBits - 1 + k]) /\ Less(n, Pow2[MantBits + k]))

\* the float64 of magnitude f with the sign neg
Signed(neg, f) == [neg |-> neg, m |-> f.m, p |-> f.p]

\* float64(nsec) / 1e9 for nsec < 10^9: the float64 nearest to the
\* quotient.  The quotient is taken with MantBits + NanoBits bits after the
\* binary point, so that it is 2^53 at least and a bit of it is dropped.
Quo(nsec) ==
    LET k == MantBits + NanoBits
        t == TimesPow2(nsec, k)
    IN IF nsec = Zero THEN FloatZero
       ELSE Signed(FALSE, Narrow(DropLast(t, NanoDigits), k, LastOf(t, NanoDigits) # Zero))

\* float64(sec) + q for a float64 q with 0 <= q < 1, not both zero: the
\* float64 nearest to the sum; float64(sec) is exact (sec < 2^53)
SumFloat(sec, q) ==
    IF q.m = Zero THEN Narrow(TimesPow2(sec, MantBits - 1), MantBits - 1, FALSE)
    ELSE Narrow(Plus(TimesPow2(sec, q.p), q.m), q.p, FALSE)

\* Duration.Seconds(): sec := d / Second; nsec := d % Second;
\* float64(sec) + float64(nsec)/1e9.  float64(sec) is exact, the quotient
\* is rounded, and so is the sum.
Seconds(d) ==
    LET sec == DropLast(d.mag, NanoDigits)
        nsec == LastOf(d.mag, NanoDigits)
    IN IF d.mag = Zero THEN FloatZero
       ELSE Signed(d.neg, SumFloat(sec, Quo(nsec)))

\* int(f) for a float64 below 2^63: the fraction is cut off
IntOf(f) == Int64(f.neg, DivPow2(f.m, f.p))

\* dist is within bound of the float64, the bound itself counted when the
\* mantissa is even
Within(dist, bound, even) == IF even THEN ~Less(bound, dist) ELSE Less(dist, bound)

\* the least number of leading digits of x, from n on, that give back the
\* float64 once cut there or once cut and raised by one: x is the float64
\* times 10^j, lo and up are the halves of the gaps to the float64 below
\* and above times 10^j
RECURSIVE ShortestLen(_, _, _, _, _)
ShortestLen(x, lo, up, even, n) ==
    LET rest == LastOf(x, Len(x) - n)
        unit == One \o Zeros(Len(x) - n)
    IN IF Within(rest, lo, even) \/ Within(Minus(unit, rest), up, even) THEN n
       ELSE ShortestLen(x, lo, up, even, n + 1)

\* digits without the zeros at their end; a carry into one more digit
\* moves the decimal point
Rounded(digits, shift) ==
    [digits |-> StripZeros(digits), dp |-> Len(digits) + shift]

\* the first n digits of x, or one more than they are, whichever is within
\* bounds and nearer to x (of two as near, the even one), and the place dp
\* of the decimal point: the value is 0.digits * 10^dp
RoundAt(x, lo, up, even, j, n) ==
    LET rest == LastOf(x, Len(x) - n)
        unit == One \o Zeros(Len(x) - n)
        down == SubSeq(x, 1, n)
        downOK == Within(rest, lo, even)
        upOK == Within(Minus(unit, rest), up, even)
        twice == Double(rest)
        raise == IF downOK /\ upOK
                 THEN Less(unit, twice) \/ (twice = unit /\ IsOdd(down))
                 ELSE upOK
    IN Rounded(IF raise THEN Plus(down, One) ELSE down, Len(x) - j - n)

\* x is the float64 times 10^j, lo and up the halves of the gaps to the
\* float64 below and above times 10^j
Shortest(x, lo, up, even, j) ==
    RoundAt(x, lo, up, even, j, ShortestLen(x, lo, up, even, 1))

\* the shortest decimal digits that give back a float64 that is not zero,
\* and the place dp of the decimal point: the value is 0.digits * 10^dp.
\* Of the shortest, the nearest to the float64; of two as near, the even one.
ShortestDecimal(f) ==
    LET j == f.p + 2
        up == DivPow2(One \o Zeros(j), f.p + 1)
    IN Shortest(DivPow2(f.m \o Zeros(j), f.p),
                IF f.m = TwoTo52 THEN Half(up) ELSE up, up, ~IsOdd(f.m), j)

\* the smallest decimal exponent at which %v prints a float64 in exponent form
ExpForm == 6

\* %e or %f of the decimal digits s of a float64, as %v chooses
FormatDigits(neg, s) ==
    LET digits == DigitsText(s.digits)
        nd == Len(digits)
        exp == s.dp - 1
        mag == IF exp < 0 THEN 0 - exp ELSE exp
        exptext == IF mag < 10 THEN Bytes(<<"0">>) \o NatText(mag) ELSE NatText(mag)
    IN (IF neg THEN Bytes(<<"-">>) ELSE <<>>)
       \o (IF exp < 0 - 4 \/ exp >= ExpForm
           THEN <<Head(digits)>>
                \o (IF nd > 1 THEN Bytes(<<".">>) \o Tail(digits) ELSE <<>>)
                \o Bytes(<<"e">>)
                \o (IF exp < 0 THEN Bytes(<<"-">>) ELSE Bytes(<<"+">>))
                \o exptext
           ELSE IF s.dp <= 0
           THEN Bytes(<<"0", ".">>) \o DigitsText(Zeros(0 - s.dp)) \o digits
           ELSE IF nd <= s.dp
           THEN digits \o DigitsText(Zeros(s.dp - nd))
           ELSE SubSeq(digits, 1, s.dp) \o Bytes(<<".">>)
                \o SubSeq(digits, s.dp + 1, nd))

\* %v of a float64 (the shortest %g): digits with a decimal point when the
\* decimal exponent is from -4 to ExpForm - 1, d.ddde+XX otherwise
FloatText(f) ==
    IF f.m = Zero THEN Bytes(<<"0">>) ELSE FormatDigits(f.neg, ShortestDecimal(f))
RECURSIVE Join(_, _)
Join(parts, sep) ==
    IF parts = <<>> THEN <<>>
    ELSE IF Len(parts) = 1 THEN parts[1]
    ELSE parts[1] \o sep \o Join(Tail(parts), sep)

\* -------------------------------------------------------------- records
\* libdns.Record; TTL is a Duration
Record(type, name, value, ttl) ==
    [Type |-> type, Name |-> name, Value |-> value, TTL |-> ttl]

\* ------------------------------------------------------------- commands
\* fmt.Sprintf("LOGIN %s %s", p.User, p.Pass)
LoginCommand(user, pass) == SLOGIN \o SP \o user \o SP \o pass

\* fmt.Sprintf("LISTRR %s", zone)
ListCommand(z) == SLISTRR \o SP \o z

\* fmt.Sprintf("ADDRR %s %s %s:%d", ..., record.TTL.Seconds()): the argument of
\* %d is a float64, which fmt prints as %!d(float64=<value>)
AppendCommand(record) ==
    SADDRR \o SP \o record.Name \o SP \o record.Type \o SP \o record.Value
    \o COLON \o SBADVERB \o FloatText(Seconds(record.TTL)) \o Bytes(<<")">>)

\* a SetRecords that appends the TTL to every record type
SetCommandAlwaysTTL(record) ==
    SADDRR \o SP \o record.Name \o SP \o record.Type \o SP \o record.Value
    \o COLON \o Itoa(IntOf(Seconds(record.TTL)))

\* the command of SetRecords: the TTL, as int seconds, for SRV only
SetCommand(record) ==
    IF record.Type = SSRV
    THEN SADDRR \o SP \o record.Name \o SP \o record.Type \o SP \o record.Value
         \o COLON \o Itoa(IntOf(Seconds(record.TTL)))
    ELSE SADDRR \o SP \o record.Name \o SP \o record.Type \o SP \o record.Value

\* fmt.Sprintf("DELRR %s %s %s", record.Name, record.Type, record.Value)
DeleteCommand(record) ==
    SDELRR \o SP \o record.Name \o SP \o record.Type \o SP \o record.Value

Command(o, record) ==
    CASE o = "Append" -> AppendCommand(record)
      [] o = "Set" -> SetCommand(record)
      [] o = "Delete" -> DeleteCommand(record)

\* ---------------------------------------------------------- sendCommand
\* conn.Write([]byte(command + "\n")): what is written, and whether it went
WriteEvent(command, ok) ==
    [kind |-> "write", ok |-> ok, data |-> command \o NL]

\* conn.Read(buffer) and the return of sendCommand: when the Read succeeds
\* the response is what arrived, up to BufferSize bytes
ReadResult(ok, data) ==
    LET n == IF Len(data) < BufferSize THEN Len(data) ELSE BufferSize
        response == IF ok THEN SubSeq(data, 1, n) ELSE <<>>
    IN [response |-> response,
        err |-> ~ok,
        event |-> [kind |-> "read", ok |-> ok, data |-> response]]

\* ------------------------------------------------------- GetRecords parse
\* the TTL read from a value:ttl token, or ttl when there is none to read
ParseTTL(valueAndTTL, ttl) ==
    LET valueParts == Split(valueAndTTL, Byte(":"))
    IN IF Len(valueParts) > 1
       THEN LET a == Atoi(valueParts[2])
            IN IF ~a.err THEN TimesSecond(a.val) ELSE ttl
       ELSE ttl

\* recordType == "SRV" && len(parts) >= 6
IsLongSRV(recordType, n) == recordType = SSRV /\ n >= 6

\* recordType == "MX" && len(parts) == 4
IsMX4(recordType, n) == recordType = SMX /\ n = 4

\* the record of one line's tokens, len(parts) >= 3
ParseParts(parts) ==
    LET n == Len(parts)
        domain == parts[1]
        recordType == parts[2]
        value0 == Split(parts[n], Byte(":"))[1]
        ttl0 == ParseTTL(parts[n], Duration(0, 0))
        value == IF IsMX4(recordType, n) THEN parts[3]
                 ELSE IF IsLongSRV(recordType, n)
                      THEN parts[3] \o SP \o parts[4] \o SP \o parts[5] \o SP \o parts[6]
                 ELSE value0
        ttl == IF ~IsMX4(recordType, n) /\ IsLongSRV(recordType, n) /\ n = 7
               THEN ParseTTL(parts[7], ttl0)
               ELSE ttl0
    IN Record(recordType, domain, value, ttl)

\* the loop of GetRecords over the lines: the records appended so far, and
\* whether line[4:] went out of range (a run-time panic) on a line
RECURSIVE ParseLines(_, _)
ParseLines(lines, records) ==
    IF lines = <<>> THEN [records |-> records, panic |-> FALSE]
    ELSE LET line == Head(lines)
         IN IF ~HasPrefix(line, S151) THEN ParseLines(Tail(lines), records)
            ELSE IF Len(line) < PrefixLen
                 THEN [records |-> records, panic |-> TRUE]
            ELSE LET parts == Fields(SliceFrom(line, PrefixLen))
                 IN IF Len(parts) < 3 THEN ParseLines(Tail(lines), records)
                    ELSE ParseLines(Tail(lines), Append(records, ParseParts(parts)))

\* strings.Split(response, "\n") and the loop
ParseResponse(response) == ParseLines(Split(response, LF), <<>>)

\* --------------------------------------------------------------- inputs
\* Provider.User and Provider.Pass
User == Bytes(<<"u">>)
Pass == Bytes(<<"p">>)

Zones == {Bytes(<<"e">>), Bytes(<<"z", ".", "e">>)}

\* what the server may answer to the banner read and to LOGIN
\* the greeting banner of the server
BannerResponses == { Bytes(<<"1", "0", "0", " ", "h", "i">>) \o NL }

LoginResponses ==
    { S225 \o Bytes(<<" ", "o", "k">>) \o NL,
      Bytes(<<"x">>) \o S225,
      Bytes(<<"2", "2", " ", "5">>),
      <<>> }

\* records a caller passes to AppendRecords, SetRecords and DeleteRecords
InputRecords ==
    { Record(Bytes(<<"A">>), Bytes(<<"e">>), Bytes(<<"v">>), Duration(300, 0)),
      Record(SSRV, Bytes(<<"s">>), Bytes(<<"1", " ", "2", " ", "3", " ", "t">>),
             Duration(1, 500000000)),
      \* 2^24 seconds and 999999999 nanoseconds
      Record(SSRV, Bytes(<<"s">>), Bytes(<<"1", " ", "2", " ", "3", " ", "t">>),
             Duration(16777216, 999999999)) }

Batches == UNION { [1..n -> InputRecords] : n \in 0..MaxRecs }

\* lines a LISTRR response is made of
ResponseLines ==
    LET p == S151 \o SP
        e == Bytes(<<"e">>)
        a == Bytes(<<"A">>)
        v30 == Bytes(<<"v", ":", "3", "0">>)
        m30 == Bytes(<<"m", ":", "3", "0">>)
        t30 == Bytes(<<"t", ":", "3", "0">>)
        n(c) == Bytes(<<c>>)
        L(tokens) == p \o Join(tokens, SP)
    IN { L(<<e, a, v30>>),
         L(<<e, a, n("v")>>),
         L(<<e, a, Bytes(<<":", "3", "0">>)>>),
         L(<<e, a, Bytes(<<"v", ":", "x">>)>>),
         L(<<e, a, Bytes(<<"2", "0", "0", "1", ":", "4", "7", "0", ":", ":", "1">>)>>),
         L(<<e, a, n("x"), v30>>),
         L(<<e, SMX, Bytes(<<"1", "0">>), m30>>),
         L(<<e, SMX, m30>>),
         L(<<e, SSRV, n("1"), n("2"), n("3"), t30>>),
         L(<<e, SSRV, n("1"), n("2"), n("3"), n("t"), Bytes(<<"x", ":", "6", "0">>)>>),
         L(<<e, SSRV, n("1"), n("2"), n("3"), n("t"), n("y"), Bytes(<<"z", ":", "6", "0">>)>>),
         L(<<e, SSRV, n("1"), n("2"), n("3"), n("t"), Bytes(<<"x", ":", "6", "0", ":", "5">>)>>),
         \* a TTL of 2^63 seconds, and one of 9223372037 seconds
         L(<<e, a, Bytes(<<"v", ":", "9", "2", "2", "3", "3", "7", "2", "0", "3", "6",
                           "8", "5", "4", "7", "7", "5", "8", "0", "8">>)>>),
         L(<<e, a, Bytes(<<"v", ":", "9", "2", "2", "3", "3", "7", "2", "0", "3", "7">>)>>),
         L(<<e, SSRV, n("1"), t30>>),
         L(<<e, a>>),
         S151,
         p,
         Bytes(<<"2", "0", "0", " ">>) \o Join(<<e, a, v30>>, SP),
         \* tab, vertical tab, U+00A0 and carriage return between the tokens
         S151 \o <<9>> \o e \o <<32, 11>> \o a \o <<194, 160>> \o v30 \o <<13>>,
         \* U+00E9 after 151: line[4:] starts with its second byte
         S151 \o <<195, 169>> \o SP \o e \o SP \o a \o <<194, 133>> \o v30 }

\* a few answers to LISTRR, for the runs that are about the connection
ShortListResponses ==
    { <<>>,
      S151,
      S151 \o Bytes(<<" ", "e", " ", "A", " ", "v", ":", "3", "0">>) \o NL }

\* what the server may answer to LISTRR: up to MaxLines lines
ListResponses ==
    { Join(ls, NL) : ls \in UNION { [1..n -> ResponseLines] : n \in 0..MaxLines } }

\* ----------------------------------------------------------------- state
VARIABLES
    pc,       \* where the running public call stands: idle, banner, login, list, loop, crashed
    op,       \* the public call: Get, Append, Set, Delete
    zone,     \* its zone argument
    input,    \* its records argument
    idx,      \* records of the batch handled so far
    result,   \* records / addedRecords / updatedRecords / deletedRecords
    conns,    \* every connection net.Dial returned, in order
    cur,      \* conn of the running call: an index into conns, 0 when none
    log,      \* the Writes and Reads made on conn
    ret,      \* what the last call returned
    calls,    \* public calls started
    at        \* where sendCommand stands: before its Write, or blocked in its Read

vars == <<pc, op, zone, input, idx, result, conns, cur, log, ret, calls, at>>

NoReturn == [records |-> <<>>, err |-> FALSE, panic |-> FALSE, done |-> FALSE]

Return(records, err) == [records |-> records, err |-> err, panic |-> FALSE, done |-> TRUE]

Panic == [records |-> <<>>, err |-> FALSE, panic |-> TRUE, done |-> TRUE]

\* a missing conn.Close()
NoClose(cs, c) == cs

\* conn.Close()
Close(cs, c) == [cs EXCEPT ![c].open = FALSE]

\* conn.Close() on the error paths of connect
CloseOnConnectError(cs, c) == Close(cs, c)

\* defer conn.Close() of a public call, run when it returns or panics
DeferredClose(cs, c) == Close(cs, c)

\* a Write or Read by call k on connection c
Use(cs, c, k) ==
    [cs EXCEPT ![c].users = @ \cup {k},
               ![c].usedClosed = @ \/ ~cs[c].open]

\* a login check that looks at the I/O error only
LoginFailedIgnoringResponse(err, response) == err

\* err != nil || !strings.Contains(response, "225")
LoginFailed(err, response) == err \/ ~Contains(response, S225)

\* a loop that echoes a record whether or not its command went through
AccumulateAlways(acc, record, err) == Append(acc, record)

\* if err != nil { continue }; append(acc, record)
Accumulate(acc, record, err) == IF err THEN acc ELSE Append(acc, record)

Init ==
    /\ pc = "idle"
    /\ op = "none"
    /\ zone = <<>>
    /\ input = <<>>
    /\ idx = 0
    /\ result = <<>>
    /\ conns = <<>>
    /\ cur = 0
    /\ log = <<>>
    /\ ret = NoReturn
    /\ calls = 0
    /\ at = "write"

\* a public call starts: connect() dials
Dial(o, z, recs, ok) ==
    /\ pc = "idle"
    /\ calls < MaxCalls
    /\ calls' = calls + 1
    /\ op' = o
    /\ zone' = z
    /\ input' = recs
    /\ idx' = 0
    /\ result' = <<>>
    /\ log' = <<>>
    /\ at' = "write"
    /\ IF ok
       THEN /\ conns' = Append(conns, [open |-> TRUE, owner |-> calls + 1,
                                       users |-> {}, usedClosed |-> FALSE])
            /\ cur' = Len(conns) + 1
            /\ pc' = "banner"
            /\ ret' = NoReturn
       ELSE /\ conns' = conns
            /\ cur' = 0
            /\ pc' = "idle"
            /\ ret' = Return(<<>>, TRUE)

\* sendCommand wrote its command and waits in conn.Read
Blocked(used) ==
    /\ at' = "read"
    /\ conns' = used
    /\ UNCHANGED <<pc, ret, idx, result>>

\* connect() after p.sendCommand(conn, ""), which skips the banner
AfterBanner(used, err) ==
    /\ at' = "write"
    /\ IF err
       THEN /\ conns' = CloseOnConnectError(used, cur)
            /\ pc' = "idle"
            /\ ret' = Return(<<>>, TRUE)
       ELSE /\ conns' = used
            /\ pc' = "login"
            /\ ret' = ret
    /\ UNCHANGED <<idx, result>>

\* connect() after the LOGIN; then the public call goes on, or returns at
\* once when it has no record to send
AfterLogin(used, err, response) ==
    /\ at' = "write"
    /\ IF LoginFailed(err, response)
       THEN /\ conns' = CloseOnConnectError(used, cur)
            /\ pc' = "idle"
            /\ ret' = Return(<<>>, TRUE)
       ELSE IF op # "Get" /\ input = <<>>
       THEN /\ conns' = DeferredClose(used, cur)
            /\ pc' = "idle"
            /\ ret' = Return(<<>>, FALSE)
       ELSE /\ conns' = used
            /\ pc' = IF op = "Get" THEN "list" ELSE "loop"
            /\ ret' = ret
    /\ UNCHANGED <<idx, result>>

\* GetRecords after the LISTRR: the parse of the response, the return
AfterList(used, err, response) ==
    LET parsed == ParseResponse(response)
    IN /\ at' = "write"
       /\ conns' = DeferredClose(used, cur)
       /\ idx' = idx
       /\ IF err
          THEN /\ result' = <<>>
               /\ pc' = "idle"
               /\ ret' = Return(<<>>, TRUE)
          ELSE /\ result' = parsed.records
               /\ pc' = IF parsed.panic THEN "crashed" ELSE "idle"
               /\ ret' = IF parsed.panic THEN Panic ELSE Return(parsed.records, FALSE)

\* the loop of AppendRecords, SetRecords or DeleteRecords after the command
\* of a record, and the return after the last one
AfterSend(used, err) ==
    LET record == input[idx + 1]
        acc == Accumulate(result, record, err)
        last == idx + 1 = Len(input)
    IN /\ at' = "write"
       /\ idx' = idx + 1
       /\ result' = acc
       /\ IF last
          THEN /\ conns' = DeferredClose(used, cur)
               /\ pc' = "idle"
               /\ ret' = Return(acc, FALSE)
          ELSE /\ conns' = used
               /\ pc' = "loop"
               /\ ret' = ret

\* the Write of p.sendCommand(conn, "")
BannerWrite(ok) ==
    /\ pc = "banner" /\ at = "write"
    /\ log' = Append(log, WriteEvent(<<>>, ok))
    /\ IF ok THEN Blocked(Use(conns, cur, calls))
       ELSE AfterBanner(Use(conns, cur, calls), TRUE)
    /\ UNCHANGED <<op, zone, input, cur, calls>>

\* its Read
BannerRead(ok, data) ==
    /\ pc = "banner" /\ at = "read"
    /\ LET r == ReadResult(ok, data)
       IN /\ log' = Append(log, r.event)
          /\ AfterBanner(Use(conns, cur, calls), r.err)
    /\ UNCHANGED <<op, zone, input, cur, calls>>

\* the Write of the LOGIN command
LoginWrite(ok) ==
    /\ pc = "login" /\ at = "write"
    /\ log' = Append(log, WriteEvent(LoginCommand(User, Pass), ok))
    /\ IF ok THEN Blocked(Use(conns, cur, calls))
       ELSE AfterLogin(Use(conns, cur, calls), TRUE, <<>>)
    /\ UNCHANGED <<op, zone, input, cur, calls>>

\* the Read of the login response
LoginRead(ok, data) ==
    /\ pc = "login" /\ at = "read"
    /\ LET r == ReadResult(ok, data)
       IN /\ log' = Append(log, r.event)
          /\ AfterLogin(Use(conns, cur, calls), r.err, r.response)
    /\ UNCHANGED <<op, zone, input, cur, calls>>

\* GetRecords: the Write of the LISTRR command
ListWrite(ok) ==
    /\ pc = "list" /\ at = "write"
    /\ log' = Append(log, WriteEvent(ListCommand(zone), ok))
    /\ IF ok THEN Blocked(Use(conns, cur, calls))
       ELSE AfterList(Use(conns, cur, calls), TRUE, <<>>)
    /\ UNCHANGED <<op, zone, input, cur, calls>>

\* GetRecords: the Read of the listing, and the rest of the call
ListRead(ok, data) ==
    /\ pc = "list" /\ at = "read"
    /\ LET r == ReadResult(ok, data)
       IN /\ log' = Append(log, r.event)
          /\ AfterList(Use(conns, cur, calls), r.err, r.response)
    /\ UNCHANGED <<op, zone, input, cur, calls>>

\* the Write of the command of the next record of the batch
SendWrite(ok) ==
    /\ pc = "loop" /\ at = "write"
    /\ log' = Append(log, WriteEvent(Command(op, input[idx + 1]), ok))
    /\ IF ok THEN Blocked(Use(conns, cur, calls))
       ELSE AfterSend(Use(conns, cur, calls), TRUE)
    /\ UNCHANGED <<op, zone, input, cur, calls>>

\* the Read of its response
SendRead(ok, data) ==
    /\ pc = "loop" /\ at = "read"
    /\ LET r == ReadResult(ok, data)
       IN /\ log' = Append(log, r.event)
          /\ AfterSend(Use(conns, cur, calls), r.err)
    /\ UNCHANGED <<op, zone, input, cur, calls>>

\* what the server answers to ADDRR and DELRR
CommandResponses == { Bytes(<<"5", "0", "0">>) \o NL }

Next ==
    \/ \E z \in Zones, ok \in BOOLEAN : Dial("Get", z, <<>>, ok)
    \/ \E o \in {"Append", "Set", "Delete"}, z \in Zones, recs \in Batches, ok \in BOOLEAN :
          Dial(o, z, recs, ok)
    \/ \E ok \in BOOLEAN : BannerWrite(ok)
    \/ \E ok \in BOOLEAN, data \in BannerResponses : BannerRead(ok, data)
    \/ \E ok \in BOOLEAN : LoginWrite(ok)
    \/ \E ok \in BOOLEAN, data \in LoginResponses : LoginRead(ok, data)
    \/ \E ok \in BOOLEAN : ListWrite(ok)
    \/ \E ok \in BOOLEAN, data \in ShortListResponses : ListRead(ok, data)
    \/ \E ok \in BOOLEAN : SendWrite(ok)
    \/ \E ok \in BOOLEAN, data \in CommandResponses : SendRead(ok, data)

\* the four public calls, under every pattern of dial, write and read failures
Spec == Init /\ [][Next]_vars

NextGet ==
    \/ Dial("Get", Bytes(<<"e">>), <<>>, TRUE)
    \/ \E ok \in BOOLEAN : BannerWrite(ok)
    \/ \E ok \in BOOLEAN, data \in BannerResponses : BannerRead(ok, data)
    \/ \E ok \in BOOLEAN : LoginWrite(ok)
    \/ \E ok \in BOOLEAN : LoginRead(ok, S225 \o Bytes(<<" ", "o", "k">>) \o NL)
    \/ \E ok \in BOOLEAN : ListWrite(ok)
    \/ \E ok \in BOOLEAN, data \in ListResponses : ListRead(ok, data)

\* GetRecords on every LISTRR response of up to MaxLines lines
SpecGet == Init /\ [][NextGet]_vars

\* ------------------------------------------------- reading the histories
Min(a, b) == IF a < b THEN a ELSE b

\* the banner exchange and the login exchange of the running connection
LoginPhase == SubSeq(log, 1, Min(4, Len(log)))

\* the login response was read and lacks "225"
LoginRefused ==
    /\ Len(log) >= 4
    /\ log[4].kind = "read" /\ log[4].ok
    /\ ~Contains(log[4].data, S225)

\* a Write or a Read of the banner or login exchange failed
LoginIOError == \E i \in 1..Len(LoginPhase) : ~LoginPhase[i].ok

\* connect() dialled and then failed
ConnectFailed == cur # 0 /\ (LoginIOError \/ LoginRefused)

\* connect() returned a connection
ConnectSucceeded ==
    /\ cur # 0
    /\ Len(log) >= 4
    /\ ~LoginIOError
    /\ ~LoginRefused

\* the exchanges made after the login: for each command written, whether its
\* Write and its Read both succeeded, or the call still waits for the Read
RECURSIVE Exchanges(_)
Exchanges(events) ==
    IF events = <<>> THEN <<>>
    ELSE IF ~Head(events).ok
         THEN <<[command |-> Head(events).data, ok |-> FALSE, pending |-> FALSE]>>
              \o Exchanges(Tail(events))
    ELSE IF Len(events) = 1
         THEN <<[command |-> Head(events).data, ok |-> FALSE, pending |-> TRUE]>>
    ELSE <<[command |-> Head(events).data, ok |-> events[2].ok, pending |-> FALSE]>>
         \o Exchanges(SubSeq(events, 3, Len(events)))

Sent == Exchanges(SubSeq(log, 5, Len(log)))

IsOver(x) == ~x.pending

\* the exchanges that are over
Answered == SelectSeq(Sent, IsOver)

RECURSIVE Successes(_, _)
Successes(records, sent) ==
    IF records = <<>> \/ sent = <<>> THEN <<>>
    ELSE (IF Head(sent).ok THEN <<Head(records)>> ELSE <<>>)
         \o Successes(Tail(records), Tail(sent))

BatchOps == {"Append", "Set", "Delete"}

IsOpCommand(data) ==
    HasPrefix(data, SLISTRR) \/ HasPrefix(data, SADDRR) \/ HasPrefix(data, SDELRR)

NameTypeValue(record) == record.Name \o SP \o record.Type \o SP \o record.Value

\* ------------------------------------------------------------------ C1
\* C1: when the login response lacks "225", or a Write or Read of the banner
\* or login exchange fails, connect() returns an error: the call is over with
\* an error, nothing more was done on the connection, and no connection the
\* adapter opened is open.
C1_ConnectFailureClosesSocket ==
    ConnectFailed =>
        /\ pc = "idle" /\ at = "write"
        /\ ret.done /\ ret.err
        /\ Len(log) <= 4
        /\ \A i \in 1..Len(conns) : ~conns[i].open

C1_Witness ==
    /\ LoginRefused
    /\ ~LoginIOError
    /\ ret.done /\ ret.err
    /\ ~conns[cur].open

\* ------------------------------------------------------------------ C2
\* C2: a connection is open only while the call that dialled it runs; when a
\* call has returned (or panicked) every connection is closed; every Write
\* and Read on a connection is made by the call that dialled it, while it is
\* open; and a call dials at most once.
C2_ConnectionPerCall ==
    /\ pc \in {"idle", "crashed"} => \A i \in 1..Len(conns) : ~conns[i].open
    /\ \A i \in 1..Len(conns) :
          /\ conns[i].open => i = cur /\ conns[i].owner = calls
          /\ conns[i].users \subseteq {conns[i].owner}
          /\ ~conns[i].usedClosed
    /\ \A i, j \in 1..Len(conns) : conns[i].owner = conns[j].owner => i = j

C2_Witness ==
    /\ pc = "idle"
    /\ Len(conns) = 2
    /\ conns[1].users = {1} /\ conns[2].users = {2}
    /\ op = "Append" /\ Len(input) = 2
    /\ ret.done /\ ~ret.err
    /\ \E i \in 1..Len(Sent) : ~Sent[i].ok

\* ------------------------------------------------------------------ C3
\* C3: when AppendRecords, SetRecords or DeleteRecords returns after a
\* successful connect, it returns no error, it has written one command per
\* input record, in input order, whatever failed before, and it returns
\* exactly the input records whose Write and Read both succeeded, in order.
\* While the loop runs the same holds of the records handled so far, and at
\* most the last command written waits for its response.
C3_BestEffortBatch ==
    (op \in BatchOps /\ ConnectSucceeded) =>
        /\ Len(Answered) = idx
        /\ Len(Sent) = IF pc = "loop" /\ at = "read" THEN idx + 1 ELSE idx
        /\ Len(Sent) <= Len(input)
        /\ \A i \in 1..Len(Sent) : Sent[i].command = Command(op, input[i]) \o NL
        /\ result = Successes(input, Answered)
        /\ ret.done => /\ idx = Len(input)
                       /\ ~ret.err
                       /\ ret.records = result

C3_Witness ==
    /\ op = "Append" /\ ConnectSucceeded
    /\ ret.done
    /\ Len(input) = 2
    /\ ~Sent[1].ok /\ Sent[2].ok
    /\ ret.records = <<input[2]>>

\* ------------------------------------------------------------------ C4
\* C4: a call whose dial or login failed returns an error and no records;
\* and a LISTRR, ADDRR or DELRR command is written on a connection only
\* after a response containing "225" was read to a LOGIN on that connection.
C4_NoCommandBeforeLogin ==
    /\ (ret.done /\ (cur = 0 \/ ConnectFailed)) =>
          /\ ret.err
          /\ ret.records = <<>>
          /\ \A k \in 1..Len(log) : ~IsOpCommand(log[k].data)
    /\ \A k \in 1..Len(log) :
          (log[k].kind = "write" /\ IsOpCommand(log[k].data)) =>
              \E j \in 2..(k - 1) :
                  /\ log[j].kind = "read" /\ log[j].ok
                  /\ Contains(log[j].data, S225)
                  /\ log[j - 1].kind = "write"
                  /\ HasPrefix(log[j - 1].data, SLOGIN)

C4_Witness ==
    /\ op = "Delete" /\ input # <<>>
    /\ LoginRefused
    /\ ret.done /\ ret.err /\ ret.records = <<>>
    /\ Len(log) = 4

\* the whole seconds of a Duration, the fraction cut off
WholeSeconds(d) == Int64(d.neg, DropLast(d.mag, NanoDigits))

\* ------------------------------------------------------------------ C5
\* C5: every command AppendRecords writes is
\* ADDRR <name> <type> <value>:<ttlSeconds>, the TTL a decimal integer.
C5_AppendCommandFormat ==
    (op = "Append" /\ ConnectSucceeded) =>
        \A i \in 1..Len(Sent) :
            Sent[i].command =
                SADDRR \o SP \o NameTypeValue(input[i]) \o COLON
                \o Itoa(WholeSeconds(input[i].TTL)) \o NL

\* ------------------------------------------------------------------ C6
\* C6 as stated: the command SetRecords writes for a record is ADDRR <name>
\* <type> <value> with nothing after the value when the Type is not SRV, and
\* ADDRR <name> <type> <value>:<ttlSeconds> when the Type is SRV, ttlSeconds
\* being the whole seconds of the TTL.
C6_SetCommandTTLSuffix ==
    (op = "Set" /\ ConnectSucceeded) =>
        \A i \in 1..Len(Sent) :
            LET plain == SADDRR \o SP \o NameTypeValue(input[i])
            IN IF input[i].Type = SSRV
               THEN Sent[i].command =
                        plain \o COLON \o Itoa(WholeSeconds(input[i].TTL)) \o NL
               ELSE Sent[i].command = plain \o NL

\* a TTL whose seconds a float64 holds without reaching the next whole
\* second: a whole number of seconds, or less than 2^24 seconds (the
\* float64 of a larger number has fewer than 30 bits after the point, and
\* 1 - 0.999999999 is more than 2^-30)
KeepsWholeSeconds(d) ==
    \/ LastOf(d.mag, NanoDigits) = Zero
    \/ Less(DropLast(d.mag, NanoDigits), TimesPow2(One, MantBits - NanoBits + 1))

\* C6, amended: the command SetRecords writes for a record is ADDRR <name>
\* <type> <value> with nothing after the value when the Type is not SRV, and
\* ADDRR <name> <type> <value>:<ttlSeconds> when the Type is SRV, ttlSeconds
\* being the whole seconds of the TTL, or one second more (in magnitude) for
\* a TTL of 2^24 seconds or more that is not a whole number of seconds.
C6_SetCommandTTLRounded ==
    (op = "Set" /\ ConnectSucceeded) =>
        \A i \in 1..Len(Sent) :
            LET plain == SADDRR \o SP \o NameTypeValue(input[i])
                d == input[i].TTL
                whole == WholeSeconds(d)
                more == Int64(d.neg, Plus(whole.mag, One))
            IN IF input[i].Type = SSRV
               THEN \/ Sent[i].command = plain \o COLON \o Itoa(whole) \o NL
                    \/ /\ ~KeepsWholeSeconds(d)
                       /\ Sent[i].command = plain \o COLON \o Itoa(more) \o NL
               ELSE Sent[i].command = plain \o NL

\* SetRecords sent an SRV record whose seconds a float64 rounds up, then a
\* record of another type
C6_Witness ==
    /\ op = "Set" /\ ConnectSucceeded
    /\ Len(Sent) = 2
    /\ input[1].Type = SSRV /\ input[1].TTL = Duration(16777216, 999999999)
    /\ input[2].Type # SSRV

\* ------------------------------------------------------ GetRecords claims
\* GetRecords read a LISTRR response
ListAnswered == op = "Get" /\ Len(log) = 6 /\ log[6].kind = "read" /\ log[6].ok

ListLines == Split(log[6].data, LF)

\* the tokens after the first 4 bytes of a line
Tokens(line) == Fields(SliceFrom(line, PrefixLen))

\* a line that starts with 151 and has 3 tokens or more after the prefix
Qualifies(line) == HasPrefix(line, S151) /\ Len(Tokens(line)) >= 3

\* a 151 line too short to strip 4 bytes from
TooShort(line) == HasPrefix(line, S151) /\ Len(line) < PrefixLen

\* the lines the loop got through: all of them, or those before the first
\* line that is too short
RECURSIVE Reached(_)
Reached(lines) ==
    IF lines = <<>> \/ TooShort(Head(lines)) THEN <<>>
    ELSE <<Head(lines)>> \o Reached(Tail(lines))

KeptLines == SelectSeq(Reached(ListLines), Qualifies)

AllKeptLines == SelectSeq(ListLines, Qualifies)

\* ------------------------------------------------------------------ C7
\* C7: on every response GetRecords returns, without an error and without a
\* crash, one record per line that starts with 151 and has 3 tokens or more.
C7_NonMatchingLinesSkipped ==
    ListAnswered =>
        /\ ~ret.panic
        /\ ret.done /\ ~ret.err
        /\ Len(ret.records) = Len(AllKeptLines)

\* ------------------------------------------------------------------ C8
\* C8: Type, Name and Value of every returned record are non-empty.
C8_RecordsPopulated ==
    \A k \in 1..Len(ret.records) :
        /\ ret.records[k].Type # <<>>
        /\ ret.records[k].Name # <<>>
        /\ ret.records[k].Value # <<>>

\* ------------------------------------------------------------------ C9
\* a decimal integer: an optional sign, then one or more digits
IsNumber(s) ==
    LET body == IF s # <<>> /\ Head(s) \in {Byte("+"), Byte("-")} THEN Tail(s) ELSE s
    IN body # <<>> /\ \A i \in 1..Len(body) : IsDigit(body[i])

\* the Duration of as many seconds as the decimal integer s says
SecondsOf(s) ==
    LET signed == Head(s) \in {Byte("+"), Byte("-")}
        body == IF signed THEN Tail(s) ELSE s
    IN Int64(Head(s) = Byte("-"),
             Shift(Norm([i \in 1..Len(body) |-> DigitVal(body[i])]), NanoDigits))

\* the token is value[:ttl]: value is what stands before a colon of the
\* token and ttl what stands after that colon, as seconds; the TTL is zero
\* when there is no colon or no number after it
IsValueColonTTL(token, value, ttl) ==
    \/ /\ \A q \in 1..Len(token) : token[q] # Byte(":")
       /\ value = token
       /\ ttl = Duration(0, 0)
    \/ \E q \in 1..Len(token) :
          /\ token[q] = Byte(":")
          /\ value = SubSeq(token, 1, q - 1)
          /\ LET suffix == SubSeq(token, q + 1, Len(token))
             IN ttl = IF IsNumber(suffix) THEN SecondsOf(suffix) ELSE Duration(0, 0)

\* C9: when GetRecords returns, its records are those of the kept lines, in
\* order, and a kept line that is neither a 4-token MX line nor an SRV line
\* of 6 tokens or more gives Name = token[0], Type = token[1] and the last
\* token split at the colon into Value and TTL seconds.
C9_BaseParse ==
    (ListAnswered /\ ~ret.panic) =>
        /\ Len(ret.records) = Len(KeptLines)
        /\ \A k \in 1..Len(ret.records) :
              LET t == Tokens(KeptLines[k])
                  n == Len(t)
                  r == ret.records[k]
              IN (~(t[2] = SMX /\ n = 4) /\ ~(t[2] = SSRV /\ n >= 6)) =>
                     /\ r.Name = t[1]
                     /\ r.Type = t[2]
                     /\ IsValueColonTTL(t[n], r.Value, r.TTL)

\* ------------------------------------------------------------------ C10
\* C10: when GetRecords returns, its records are those of the kept lines, in
\* order; for an SRV line of 6 tokens or more Value is tokens 2 to 5 joined
\* by single spaces; with exactly 7 tokens the TTL is the colon suffix of
\* token[6] as seconds (zero when there is no colon or no number after it);
\* with fewer than 6 tokens Name, Type, Value and TTL are the base parse.
C10_SRVParse ==
    (ListAnswered /\ ~ret.panic) =>
        /\ Len(ret.records) = Len(KeptLines)
        /\ \A k \in 1..Len(ret.records) :
              LET t == Tokens(KeptLines[k])
                  n == Len(t)
                  r == ret.records[k]
              IN t[2] = SSRV =>
                     /\ n >= 6 => r.Value = t[3] \o SP \o t[4] \o SP \o t[5] \o SP \o t[6]
                     /\ n = 7 => \E q \in 0..Len(t[7]) :
                                    IsValueColonTTL(t[7], SubSeq(t[7], 1, q), r.TTL)
                     /\ n < 6 => /\ r.Name = t[1]
                                 /\ r.Type = t[2]
                                 /\ IsValueColonTTL(t[n], r.Value, r.TTL)

=============================================================================
